---- MODULE Spec2Model ----
(***************************************************************************)
(* Framebuffer addressing and rendering engine of the SSD1306 / SH1107     *)
(* OLED driver (src/src/myssd1306.c, src/include/myssd1306.h) and the      *)
(* calls the demonstration program makes (src/src/lcd_example.c).          *)
(*                                                                         *)
(* The framebuffer is the C array ssd1306_buffer: a function from byte     *)
(* index to byte value.  Every driver entry point is an operator from the  *)
(* buffer and its arguments to the new buffer, written loop by loop as the *)
(* C code is, with the C integer widths (uint8_t, uint16_t, uint32_t, int) *)
(* kept.  An action is one call of an entry point.                         *)
(***************************************************************************)
EXTENDS Integers, Naturals, Sequences, FiniteSets, TLC

VARIABLES
    geom,            \* the build configuration: [W, H, OFFSET]
    ssd1306_buffer,  \* the display buffer
    prev,            \* the display buffer before the last call
    op,              \* the last call: its name and its arguments
    n,               \* drawing calls made in the frame
    wire,            \* the transfers handed to i2c_write_raw, in order
    io               \* the transmitting call (refresh, init) and its position

vars == <<geom, ssd1306_buffer, prev, op, n, wire, io>>

(***************************************************************************)
(* Bounds of the model                                                     *)
(***************************************************************************)
\* drawing calls explored in a frame, after the fills that begin it
MaxOps == 1
\* passes of a loop that a call is followed through
MaxPasses == 1024

(***************************************************************************)
(* Display configuration (myssd1306.h)                                     *)
(***************************************************************************)
\* SSD1306_64X32, SSD1306_72X40, SSD1306_128X32, SSD1306_128X64, SH1107_128x128
Geometries ==
    { [W |-> 64,  H |-> 32,  OFFSET |-> 32],
      [W |-> 72,  H |-> 40,  OFFSET |-> 28],
      [W |-> 128, H |-> 32,  OFFSET |-> 0],
      [W |-> 128, H |-> 64,  OFFSET |-> 0],
      [W |-> 128, H |-> 128, OFFSET |-> 0] }

SSD1306_W == geom.W
SSD1306_H == geom.H
SSD1306_OFFSET == geom.OFFSET

\* sizeof(ssd1306_buffer)
BufSize == (SSD1306_W * SSD1306_H) \div 8

(***************************************************************************)
(* C integer arithmetic                                                    *)
(***************************************************************************)
\* A 32-bit quantity, int or uint32_t, is carried as the int with the same
\* bit pattern: the uint32_t value 0xFFFFFFFF is -1, and the conversions
\* between int and uint32_t change nothing.  Sums and differences are then
\* the C ones modulo 2^32 as long as they stay inside (-2^31, 2^31), which
\* the arguments explored do.  Only the comparisons tell the two types apart.
\* a >= b for uint32_t a and a bound 0 <= b < 2^31
GeU32(a, b) == a < 0 \/ a >= b

\* conversion to uint8_t and to uint16_t
U8(v) == v % (2^8)
U16(v) == v % (2^16)

\* bit k of v
Bit(v, k) == (v \div (2^k)) % 2

\* b | (1 << k), b & ~(1 << k) and b ^ (1 << k) for a byte b and k < 8
OrBit(b, k) == IF Bit(b, k) = 1 THEN b ELSE b + 2^k
AndNotBit(b, k) == IF Bit(b, k) = 1 THEN b - 2^k ELSE b
XorBit(b, k) == IF Bit(b, k) = 1 THEN b - 2^k ELSE b + 2^k

(***************************************************************************)
(* Buffer management                                                       *)
(***************************************************************************)
\* memset with the color itself as the fill byte
MutSetbufRawColor(color) ==
    [i \in 0 .. BufSize - 1 |-> U8(color)]

\* memset(ssd1306_buffer, color ? 0xFF : 0x00, W*H/8); color is uint8_t
ssd1306_setbuf(color) ==
    [i \in 0 .. BufSize - 1 |-> IF U8(color) # 0 THEN 255 ELSE 0]

\* lcd_example.c: ssd1306_buffer[i] = i for every byte of the buffer
test_binary_pattern == [i \in 0 .. BufSize - 1 |-> U8(i)]

(***************************************************************************)
(* Pixel accessor                                                          *)
(***************************************************************************)
\* addr = x + SSD1306_W*(y/8)
PixelAddr(x, y) == x + SSD1306_W * (y \div 8)

\* the k of the mask 1<<(y&7)
PixelBit(y) == y % 8

\* a store of the whole strip byte in place of the one bit
MutDrawPixelWholeByte(buf, x, y, color) ==
    IF GeU32(x, SSD1306_W) \/ GeU32(y, SSD1306_H) THEN buf
    ELSE IF color # 0
         THEN [buf EXCEPT ![PixelAddr(x, y)] = 255]
         ELSE [buf EXCEPT ![PixelAddr(x, y)] = 0]

\* void ssd1306_drawPixel(uint32_t x, uint32_t y, int color); x and y are
\* the values after conversion to uint32_t
ssd1306_drawPixel(buf, x, y, color) ==
    IF GeU32(x, SSD1306_W) THEN buf
    ELSE IF GeU32(y, SSD1306_H) THEN buf
    ELSE IF color # 0
         THEN [buf EXCEPT ![PixelAddr(x, y)] = OrBit(@, PixelBit(y))]
         ELSE [buf EXCEPT ![PixelAddr(x, y)] = AndNotBit(@, PixelBit(y))]

\* void ssd1306_xorPixel(uint32_t x, uint32_t y)
ssd1306_xorPixel(buf, x, y) ==
    IF GeU32(x, SSD1306_W) THEN buf
    ELSE IF GeU32(y, SSD1306_H) THEN buf
    ELSE [buf EXCEPT ![PixelAddr(x, y)] = XorBit(@, PixelBit(y))]

(***************************************************************************)
(* Loops                                                                   *)
(***************************************************************************)
\* A loop is a state record (the buffer and the loop's variables, with exit
\* set once the loop has been left) and an operator performing one pass:
\* the test of the loop condition, then the body.  Passes are performed in
\* order, each on the state the one before left; the evaluation is split in
\* halves so that its nesting stays logarithmic in the number of passes, and
\* the state a pass starts from is a value s, evaluated once.
RECURSIVE Passes(_, _, _)
Passes(Pass(_), st, k) ==
    CHOOSE after \in
        { IF s.exit \/ k = 0 THEN s
          ELSE IF k = 1 THEN Pass(s)
          ELSE Passes(Pass, Passes(Pass, s, k \div 2), k - (k \div 2)) :
          s \in {st} } : TRUE

\* the loop run until it is left (no call explored needs MaxPasses passes)
Loop(Pass(_), st) == Passes(Pass, st, MaxPasses)

\* a for loop of count turns: its count passes and the test that leaves it
For(Pass(_), st, count) == Passes(Pass, st, count + 1)

Exit(st) == [st EXCEPT !.exit = TRUE]

(***************************************************************************)
(* Primitive rasterizer                                                    *)
(***************************************************************************)
\* while(h--) ssd1306_drawPixel(x, y++, color);
VLinePass(st) ==
    IF st.h = 0 THEN Exit(st)
    ELSE [st EXCEPT !.buf = ssd1306_drawPixel(st.buf, st.x, st.y, st.color),
                    !.y = st.y + 1,
                    !.h = st.h - 1]

\* void ssd1306_drawFastVLine(int32_t x, int32_t y, int32_t h, uint32_t color)
\* (for h >= 0: the comparisons are signed)
ssd1306_drawFastVLine(buf, x, y, h, color) ==
    IF x >= SSD1306_W \/ y >= SSD1306_H THEN buf
    ELSE Loop(VLinePass,
              [buf |-> buf, x |-> x, y |-> y,
               h |-> IF (y + h - 1) >= SSD1306_H THEN SSD1306_H - y ELSE h,
               color |-> color, exit |-> FALSE]).buf

\* while (w--) ssd1306_drawPixel(x++, y, color);
HLinePass(st) ==
    IF st.w = 0 THEN Exit(st)
    ELSE [st EXCEPT !.buf = ssd1306_drawPixel(st.buf, st.x, st.y, st.color),
                    !.x = st.x + 1,
                    !.w = st.w - 1]

\* if((x+w-1) >= SSD1306_W)  w = SSD1306_W-x;
HLineWidth(x, w) ==
    IF GeU32(x + w - 1, SSD1306_W) THEN SSD1306_W - x ELSE w

\* ssd1306_drawFastHLine without the clipping of its start
MutFastHLineNoStartClip(buf, x, y, w, color) ==
    Loop(HLinePass,
         [buf |-> buf, x |-> x, y |-> y, w |-> HLineWidth(x, w),
          color |-> color, exit |-> FALSE]).buf

\* void ssd1306_drawFastHLine(uint32_t x, uint32_t y, uint32_t w, uint32_t color)
ssd1306_drawFastHLine(buf, x, y, w, color) ==
    IF GeU32(x, SSD1306_W) \/ GeU32(y, SSD1306_H) THEN buf
    ELSE Loop(HLinePass,
              [buf |-> buf, x |-> x, y |-> y, w |-> HLineWidth(x, w),
               color |-> color, exit |-> FALSE]).buf

\* int gfx_abs(int x)
gfx_abs(x) == IF x < 0 THEN 0 - x ELSE x

\* void gfx_swap(int *z0, int *z1): the new <<*z0, *z1>>; temp is uint16_t
gfx_swap(z0, z1) == <<z1, U16(z0)>>

\* the C quotient a/2 (truncated toward zero)
CDiv2(a) == IF a >= 0 THEN a \div 2 ELSE 0 - ((0 - a) \div 2)

\* for(x=x0;x<=x1;x++) { plot point; update error; update y }
LinePass(st) ==
    IF st.x > st.x1 THEN Exit(st)
    ELSE LET e1 == st.error - st.deltay
         IN  [st EXCEPT
                !.buf = IF st.steep
                        THEN ssd1306_drawPixel(st.buf, st.y, st.x, st.color)
                        ELSE ssd1306_drawPixel(st.buf, st.x, st.y, st.color),
                !.error = IF e1 < 0 THEN e1 + st.deltax ELSE e1,
                !.y = IF e1 < 0 THEN st.y + st.ystep ELSE st.y,
                !.x = st.x + 1]

\* the loop variables of ssd1306_drawLine when its loop is entered
LineSetup(buf, x0, y0, x1, y1, color) ==
    LET steep == gfx_abs(y1 - y0) > gfx_abs(x1 - x0)
        \* if(steep) { gfx_swap(&x0, &y0); gfx_swap(&x1, &y1); }
        s0 == IF steep THEN gfx_swap(x0, y0) ELSE <<x0, y0>>
        s1 == IF steep THEN gfx_swap(x1, y1) ELSE <<x1, y1>>
        \* if(x0 > x1) { gfx_swap(&x0, &x1); gfx_swap(&y0, &y1); }
        low == s0[1] > s1[1]
        sx == IF low THEN gfx_swap(s0[1], s1[1]) ELSE <<s0[1], s1[1]>>
        sy == IF low THEN gfx_swap(s0[2], s1[2]) ELSE <<s0[2], s1[2]>>
        deltax == sx[2] - sx[1]
    IN  [buf |-> buf, x |-> sx[1], x1 |-> sx[2], y |-> sy[1], steep |-> steep,
         deltax |-> deltax, deltay |-> gfx_abs(sy[2] - sy[1]),
         error |-> CDiv2(deltax),
         ystep |-> IF sy[1] < sy[2] THEN 1 ELSE 0 - 1,
         color |-> color, exit |-> FALSE]

\* void ssd1306_drawLine(int x0, int y0, int x1, int y1, uint32_t color)
ssd1306_drawLine(buf, x0, y0, x1, y1, color) ==
    Loop(LinePass, LineSetup(buf, x0, y0, x1, y1, color)).buf

\* the update of a pass of the circle loops, after the plotting: the new
\* <<x_pos, y_pos, err>>
CircleStep(x_pos, y_pos, err) ==
    LET up == err <= y_pos
        y1 == IF up THEN y_pos + 1 ELSE y_pos
        err1 == IF up THEN err + y1 * 2 + 1 ELSE err
        e2 == IF up /\ (0 - x_pos) = y1 /\ err <= x_pos THEN 0 ELSE err
        right == e2 > x_pos
        x1 == IF right THEN x_pos + 1 ELSE x_pos
        err2 == IF right THEN err1 + x1 * 2 + 1 ELSE err1
    IN  <<x1, y1, err2>>

\* the pass without its first ssd1306_drawPixel call
MutCirclePlotThree(buf, x, y, x_pos, y_pos, color) ==
    ssd1306_drawPixel(
      ssd1306_drawPixel(
        ssd1306_drawPixel(buf, x + x_pos, y + y_pos, color),
        x + x_pos, y - y_pos, color),
      x - x_pos, y - y_pos, color)

\* the four ssd1306_drawPixel calls of a pass of the circle loops
CirclePlot(buf, x, y, x_pos, y_pos, color) ==
    ssd1306_drawPixel(
      ssd1306_drawPixel(
        ssd1306_drawPixel(
          ssd1306_drawPixel(buf, x - x_pos, y + y_pos, color),
          x + x_pos, y + y_pos, color),
        x + x_pos, y - y_pos, color),
      x - x_pos, y - y_pos, color)

\* the plotting of a pass of ssd1306_fillCircle: the four pixels and the two
\* ssd1306_drawFastHLine calls
FillCirclePlot(buf, x, y, x_pos, y_pos, color) ==
    ssd1306_drawFastHLine(
      ssd1306_drawFastHLine(
        CirclePlot(buf, x, y, x_pos, y_pos, color),
        x + x_pos, y + y_pos, 2 * (0 - x_pos) + 1, color),
      x + x_pos, y - y_pos, 2 * (0 - x_pos) + 1, color)

\* do { plot; update } while (x_pos <= 0);
CirclePass(st) ==
    LET nxt == CircleStep(st.x_pos, st.y_pos, st.err)
    IN  [st EXCEPT
           !.buf = IF st.filled
                   THEN FillCirclePlot(st.buf, st.x, st.y, st.x_pos, st.y_pos,
                                       st.color)
                   ELSE CirclePlot(st.buf, st.x, st.y, st.x_pos, st.y_pos,
                                   st.color),
           !.x_pos = nxt[1],
           !.y_pos = nxt[2],
           !.err = nxt[3],
           !.exit = ~(nxt[1] <= 0)]

\* the loop entered one column further out than the radius
MutCircleSetupWide(buf, x, y, radius, color, filled) ==
    [buf |-> buf, x |-> x, y |-> y, color |-> color, filled |-> filled,
     x_pos |-> 0 - radius - 1, y_pos |-> 0, err |-> 2 - 2 * radius,
     exit |-> FALSE]

\* the loop variables of the circle functions when the loop is entered
CircleSetup(buf, x, y, radius, color, filled) ==
    [buf |-> buf, x |-> x, y |-> y, color |-> color, filled |-> filled,
     x_pos |-> 0 - radius, y_pos |-> 0, err |-> 2 - 2 * radius,
     exit |-> FALSE]

\* void ssd1306_drawCircle(int x, int y, int radius, int color)
ssd1306_drawCircle(buf, x, y, radius, color) ==
    Loop(CirclePass, CircleSetup(buf, x, y, radius, color, FALSE)).buf

\* void ssd1306_fillCircle(int x, int y, int radius, int color)
ssd1306_fillCircle(buf, x, y, radius, color) ==
    Loop(CirclePass, CircleSetup(buf, x, y, radius, color, TRUE)).buf

\* void ssd1306_drawRect(int32_t x, int32_t y, uint32_t w, uint32_t h, uint32_t color)
ssd1306_drawRect(buf, x, y, w, h, color) ==
    ssd1306_drawFastHLine(
      ssd1306_drawFastHLine(
        ssd1306_drawFastVLine(
          ssd1306_drawFastVLine(buf, x, y, h, color),
          x + w - 1, y, h, color),
        x, y, w, color),
      x, y + h - 1, w, color)

\* while(w--) ssd1306_drawPixel(m++, n, color);
FillRectRowPass(st) ==
    IF st.w = 0 THEN Exit(st)
    ELSE [st EXCEPT !.buf = ssd1306_drawPixel(st.buf, st.m, st.n, st.color),
                    !.m = st.m + 1,
                    !.w = st.w - 1]

\* while(h--) { m=x; w=iw; scan horizontal; n++; }
FillRectPass(st) ==
    IF st.h = 0 THEN Exit(st)
    ELSE [st EXCEPT
           !.buf = Loop(FillRectRowPass,
                        [buf |-> st.buf, m |-> st.x, n |-> st.n,
                         w |-> U8(st.iw), color |-> st.color,
                         exit |-> FALSE]).buf,
           !.n = st.n + 1,
           !.h = st.h - 1]

\* void ssd1306_fillRect(uint32_t x, uint32_t y, uint8_t w, uint32_t h, uint32_t color)
ssd1306_fillRect(buf, x, y, w, h, color) ==
    Loop(FillRectPass,
         [buf |-> buf, x |-> x, n |-> y, iw |-> U8(w), h |-> h,
          color |-> color, exit |-> FALSE]).buf

\* while(w--) ssd1306_xorPixel(m++, n); m and w are uint8_t
XorRectRowPass(st) ==
    IF st.w = 0 THEN Exit(st)
    ELSE [st EXCEPT !.buf = ssd1306_xorPixel(st.buf, st.m, st.n),
                    !.m = U8(st.m + 1),
                    !.w = st.w - 1]

\* while(h--) { m=x; w=iw; scan horizontal; n++; } n and h are uint8_t
XorRectPass(st) ==
    IF st.h = 0 THEN Exit(st)
    ELSE [st EXCEPT
           !.buf = Loop(XorRectRowPass,
                        [buf |-> st.buf, m |-> st.x, n |-> st.n, w |-> st.iw,
                         exit |-> FALSE]).buf,
           !.n = U8(st.n + 1),
           !.h = st.h - 1]

\* void ssd1306_xorrect(uint8_t x, uint8_t y, uint8_t w, uint8_t h)
ssd1306_xorrect(buf, x, y, w, h) ==
    Loop(XorRectPass,
         [buf |-> buf, x |-> U8(x), n |-> U8(y), iw |-> U8(w), h |-> U8(h),
          exit |-> FALSE]).buf

(***************************************************************************)
(* Image compositor                                                        *)
(***************************************************************************)
\* x_absolute = x + 8 * (bytes_to_draw - byte) + pixel
ImageColumn(x, bytes_to_draw, byte, pixel) ==
    x + 8 * (bytes_to_draw - byte) + pixel

\* input_pixel = input_byte & (1 << pixel), as a truth value
InputPixel(input_byte, pixel) == Bit(input_byte, pixel) # 0

\* the switch with case 2 setting the pixel where the source bit is 1
MutImageWriteMode2Sets(b, k, input_pixel, color_mode) ==
    IF input_pixel /\ color_mode \in {2, 3} THEN OrBit(b, k)
    ELSE IF ~input_pixel /\ color_mode \in {1, 4} THEN OrBit(b, k)
    ELSE IF color_mode \in {0, 1} \/ (input_pixel /\ color_mode = 5)
         THEN AndNotBit(b, k)
    ELSE b

\* the switch with case 0 inverting the pixel where the source bit is 1
MutImageWriteMode0Toggles(b, k, input_pixel, color_mode) ==
    IF color_mode = 0 THEN (IF input_pixel THEN XorBit(b, k) ELSE b)
    ELSE IF input_pixel /\ color_mode = 3 THEN OrBit(b, k)
    ELSE IF ~input_pixel /\ color_mode \in {1, 4} THEN OrBit(b, k)
    ELSE IF color_mode = 1 \/ (input_pixel /\ color_mode = 5)
              \/ (~input_pixel /\ color_mode = 2)
         THEN AndNotBit(b, k)
    ELSE b

\* the switch (color_mode): the new strip byte from the old one b, where
\* v_mask is 1 << k
ImageWrite(b, k, input_pixel, color_mode) ==
    CASE color_mode = 0 ->
           \* (b & ~v_mask) | (input_pixel ? v_mask : 0)
           IF input_pixel THEN OrBit(AndNotBit(b, k), k) ELSE AndNotBit(b, k)
      [] color_mode = 1 ->
           \* (b & ~v_mask) | (!input_pixel ? v_mask : 0)
           IF ~input_pixel THEN OrBit(AndNotBit(b, k), k) ELSE AndNotBit(b, k)
      [] color_mode = 2 ->
           \* b & (input_pixel ? 0xFF : ~v_mask)
           IF input_pixel THEN b ELSE AndNotBit(b, k)
      [] color_mode = 3 ->
           \* b | (input_pixel ? v_mask : 0)
           IF input_pixel THEN OrBit(b, k) ELSE b
      [] color_mode = 4 ->
           \* b | (!input_pixel ? v_mask : 0)
           IF ~input_pixel THEN OrBit(b, k) ELSE b
      [] color_mode = 5 ->
           \* b & (input_pixel ? ~v_mask : 0xFF)
           IF input_pixel THEN AndNotBit(b, k) ELSE b
      [] OTHER -> b

\* for (pixel = 0; pixel < 8; pixel++) { x_absolute; break or write }
ImagePixelPass(st) ==
    IF st.pixel >= 8 THEN Exit(st)
    ELSE LET x_absolute == ImageColumn(st.x, st.bytes_to_draw, st.byte, st.pixel)
         IN  IF GeU32(x_absolute, SSD1306_W) THEN Exit(st)
             ELSE [st EXCEPT
                    !.buf = [st.buf EXCEPT
                              ![x_absolute + SSD1306_W * (st.y_absolute \div 8)] =
                                 ImageWrite(@, PixelBit(st.y_absolute),
                                            InputPixel(st.input_byte, st.pixel),
                                            st.color_mode)],
                    !.pixel = st.pixel + 1]

\* for (byte = 0; byte < bytes_to_draw; byte++) { input_byte; pixels }
\* input is the C array as a sequence: input[i] of the code is input[i + 1]
ImageBytePass(st) ==
    IF st.byte >= st.bytes_to_draw THEN Exit(st)
    ELSE [st EXCEPT
           !.buf = For(ImagePixelPass,
                       [buf |-> st.buf, x |-> st.x,
                        y_absolute |-> st.y_absolute,
                        input_byte |-> st.input[st.byte + st.line * st.bytes_to_draw + 1],
                        bytes_to_draw |-> st.bytes_to_draw, byte |-> st.byte,
                        color_mode |-> st.color_mode, pixel |-> 0,
                        exit |-> FALSE], 8).buf,
           !.byte = st.byte + 1]

\* for (line = 0; line < height; line++) { y_absolute; break or bytes }
ImageLinePass(st) ==
    IF st.line >= st.height THEN Exit(st)
    ELSE IF GeU32(st.y + st.line, SSD1306_H) THEN Exit(st)
    ELSE [st EXCEPT
           !.buf = Loop(ImageBytePass,
                        [buf |-> st.buf, x |-> st.x,
                         y_absolute |-> st.y + st.line, input |-> st.input,
                         bytes_to_draw |-> st.bytes_to_draw, line |-> st.line,
                         color_mode |-> st.color_mode, byte |-> 0,
                         exit |-> FALSE]).buf,
           !.line = st.line + 1]

\* void ssd1306_drawImage(uint32_t x, uint32_t y, const unsigned char* input,
\*                        uint32_t width, uint32_t height, uint32_t color_mode)
ssd1306_drawImage(buf, x, y, input, width, height, color_mode) ==
    Loop(ImageLinePass,
         [buf |-> buf, x |-> x, y |-> y, input |-> input,
          bytes_to_draw |-> width \div 8, height |-> height,
          color_mode |-> color_mode, line |-> 0, exit |-> FALSE]).buf

(***************************************************************************)
(* Glyph renderer                                                          *)
(***************************************************************************)
\* the rows of the glyphs of the font table used here, MSB first: 'H', 'E',
\* 'L', 'O' and the block 0x7F; every other glyph is taken as blank
GlyphRows(chr) ==
    CASE chr = 72  -> <<198, 198, 198, 254, 198, 198, 198, 0>>
      [] chr = 69  -> <<254, 192, 192, 248, 192, 192, 254, 0>>
      [] chr = 76  -> <<192, 192, 192, 192, 192, 192, 254, 0>>
      [] chr = 79  -> <<124, 198, 198, 198, 198, 198, 124, 0>>
      [] chr = 127 -> <<255, 255, 255, 255, 255, 255, 255, 255>>
      [] OTHER     -> <<0, 0, 0, 0, 0, 0, 0, 0>>

\* fontdata[i]
fontdata(i) == GlyphRows(i \div 8)[(i % 8) + 1]

\* if(d&0x80) col = color; else col = (~color)&1;
GlyphColor(d, color) ==
    IF Bit(d, 7) # 0 THEN color ELSE 1 - (color % 2)

\* for (k < font_scale) for (l < font_scale)
\*     ssd1306_drawPixel(x + (j * font_scale) + k, y + (i * font_scale) + l, col);
\* t counts the blocks' pixels: k = t / font_scale, l = t % font_scale
ScalePass(st) ==
    IF st.t >= st.font_scale * st.font_scale THEN Exit(st)
    ELSE [st EXCEPT
           !.buf = ssd1306_drawPixel(
                     st.buf,
                     st.x + (st.j * st.font_scale) + (st.t \div st.font_scale),
                     st.y + (st.i * st.font_scale) + (st.t % st.font_scale),
                     st.col),
           !.t = st.t + 1]

\* for (j = 0; j < 8; j++) { col; the block of pixel j; d <<= 1; }
\* (ssd1306_drawchar: the block is the one pixel (x+j, y+i))
CharColPass(st) ==
    IF st.j >= 8 THEN Exit(st)
    ELSE [st EXCEPT
           !.buf = For(ScalePass,
                       [buf |-> st.buf, x |-> st.x, y |-> st.y, i |-> st.i,
                        j |-> st.j, font_scale |-> st.font_scale,
                        col |-> GlyphColor(st.d, st.color), t |-> 0,
                        exit |-> FALSE], st.font_scale * st.font_scale).buf,
           !.d = U8(st.d * 2),
           !.j = st.j + 1]

\* for (i = 0; i < 8; i++) { d = fontdata[(chr << 3) + i]; columns }
CharRowPass(st) ==
    IF st.i >= 8 THEN Exit(st)
    ELSE [st EXCEPT
           !.buf = For(CharColPass,
                       [buf |-> st.buf, x |-> st.x, y |-> st.y, i |-> st.i,
                        d |-> fontdata(st.chr * 8 + st.i), color |-> st.color,
                        font_scale |-> st.font_scale, j |-> 0,
                        exit |-> FALSE], 8).buf,
           !.i = st.i + 1]

\* void ssd1306_drawchar_sz(uint8_t x, uint8_t y, uint8_t chr, uint8_t color,
\*                          font_size_t font_size)
ssd1306_drawchar_sz(buf, x, y, chr, color, font_size) ==
    For(CharRowPass,
        [buf |-> buf, x |-> U8(x), y |-> U8(y), chr |-> U8(chr),
         color |-> U8(color), font_scale |-> U8(font_size), i |-> 0,
         exit |-> FALSE], 8).buf

\* void ssd1306_drawchar(uint8_t x, uint8_t y, uint8_t chr, uint8_t color):
\* the loops of ssd1306_drawchar_sz with one pixel per glyph bit
ssd1306_drawchar(buf, x, y, chr, color) ==
    For(CharRowPass,
        [buf |-> buf, x |-> U8(x), y |-> U8(y), chr |-> U8(chr),
         color |-> U8(color), font_scale |-> 1, i |-> 0,
         exit |-> FALSE], 8).buf

\* while((c=*str++)) { ssd1306_drawchar(x, y, c, color); x += 8;
\*                     if(x>120) break; }
\* str is the characters before the terminating 0, k the ones consumed
DrawStrPass(st) ==
    IF st.k >= Len(st.str) THEN Exit(st)
    ELSE [st EXCEPT
           !.buf = ssd1306_drawchar(st.buf, st.x, st.y, st.str[st.k + 1],
                                    st.color),
           !.x = U8(st.x + 8),
           !.k = st.k + 1,
           !.exit = U8(st.x + 8) > 120]

\* void ssd1306_drawstr(uint8_t x, uint8_t y, char *str, uint8_t color)
ssd1306_drawstr(buf, x, y, str, color) ==
    For(DrawStrPass,
        [buf |-> buf, x |-> U8(x), y |-> U8(y), str |-> str,
         color |-> U8(color), k |-> 0, exit |-> FALSE], Len(str)).buf

\* while((c=*str++)) { ssd1306_drawchar_sz(x, y, c, color, font_size);
\*                     x += 8 * font_size; if(x>128 - 8 * font_size) break; }
DrawStrSzPass(st) ==
    IF st.k >= Len(st.str) THEN Exit(st)
    ELSE [st EXCEPT
           !.buf = ssd1306_drawchar_sz(st.buf, st.x, st.y, st.str[st.k + 1],
                                       st.color, st.font_size),
           !.x = U8(st.x + 8 * st.font_size),
           !.k = st.k + 1,
           !.exit = U8(st.x + 8 * st.font_size) > 128 - 8 * st.font_size]

\* void ssd1306_drawstr_sz(uint8_t x, uint8_t y, char *str, uint8_t color,
\*                         font_size_t font_size)
ssd1306_drawstr_sz(buf, x, y, str, color, font_size) ==
    For(DrawStrSzPass,
        [buf |-> buf, x |-> U8(x), y |-> U8(y), str |-> str,
         color |-> U8(color), font_size |-> font_size, k |-> 0,
         exit |-> FALSE], Len(str)).buf

\* font_size_t
FontSizes == {1, 2, 4, 8}

(***************************************************************************)
(* Reading the framebuffer                                                 *)
(***************************************************************************)
\* the pixel (x, y) of a buffer, for x < W and y < H
PixelOf(buf, x, y) == Bit(buf[x + SSD1306_W * (y \div 8)], y % 8)

(***************************************************************************)
(* Calls: the state after construction and one action per entry point      *)
(***************************************************************************)
\* static storage: the buffer is zero-filled, nothing has been called
Init ==
    /\ geom \in Geometries
    /\ ssd1306_buffer = [i \in 0 .. ((geom.W * geom.H) \div 8) - 1 |-> 0]
    /\ prev = ssd1306_buffer
    /\ op = [name |-> "none"]
    /\ n = 0
    /\ wire = << >>
    /\ io = [pc |-> "idle", caller |-> "none", k |-> 1, i |-> 0, base |-> 0,
             n0 |-> 0, failed |-> FALSE, ret |-> 0]

\* a call that overwrites the whole buffer; a frame begins with such calls
\* (main: ssd1306_setbuf(0), then the test mode, each turn of its loop)
Fill(newbuf, call) ==
    /\ n = 0
    /\ prev' = ssd1306_buffer
    /\ ssd1306_buffer' = newbuf
    /\ op' = call
    /\ UNCHANGED <<geom, n, wire, io>>

\* a drawing call
Draw(newbuf, call) ==
    /\ n < MaxOps
    /\ prev' = ssd1306_buffer
    /\ ssd1306_buffer' = newbuf
    /\ op' = call
    /\ n' = n + 1
    /\ UNCHANGED <<geom, wire, io>>

\* uint8_t color arguments
Colors8 == {0, 1, 2, 255}
\* int color arguments
ColorsInt == {0, 1, 0 - 1}

\* column arguments: inside, the last column, the first column outside
\* and 0xFFFFFFFF
Xs32 == {0, 9, SSD1306_W - 1, SSD1306_W, 0 - 1}
\* row arguments, likewise
Ys32 == {0, 7, 8, SSD1306_H - 1, SSD1306_H, 0 - 1}

SetBuf ==
    \E color \in Colors8 :
        Fill(ssd1306_setbuf(color), [name |-> "setbuf", color |-> color])

BinaryPattern ==
    Fill(test_binary_pattern, [name |-> "binary"])

\* the calls of each entry point, its arguments drawn from the given sets
CallDrawPixel(XY, C) ==
    \E p \in XY, color \in C :
        Draw(ssd1306_drawPixel(ssd1306_buffer, p[1], p[2], color),
             [name |-> "drawPixel", x |-> p[1], y |-> p[2], color |-> color])

CallXorPixel(XY) ==
    \E p \in XY :
        Draw(ssd1306_xorPixel(ssd1306_buffer, p[1], p[2]),
             [name |-> "xorPixel", x |-> p[1], y |-> p[2]])

CallFastVLine(XYH, C) ==
    \E a \in XYH, color \in C :
        Draw(ssd1306_drawFastVLine(ssd1306_buffer, a[1], a[2], a[3], color),
             [name |-> "drawFastVLine", x |-> a[1], y |-> a[2], h |-> a[3],
              color |-> color])

CallFastHLine(XYW, C) ==
    \E a \in XYW, color \in C :
        Draw(ssd1306_drawFastHLine(ssd1306_buffer, a[1], a[2], a[3], color),
             [name |-> "drawFastHLine", x |-> a[1], y |-> a[2], w |-> a[3],
              color |-> color])

CallDrawLine(L, C) ==
    \E a \in L, color \in C :
        Draw(ssd1306_drawLine(ssd1306_buffer, a[1], a[2], a[3], a[4], color),
             [name |-> "drawLine", x |-> a[1], y |-> a[2], x1 |-> a[3],
              y1 |-> a[4], color |-> color])

CallDrawCircle(XYR, C) ==
    \E a \in XYR, color \in C :
        Draw(ssd1306_drawCircle(ssd1306_buffer, a[1], a[2], a[3], color),
             [name |-> "drawCircle", x |-> a[1], y |-> a[2], radius |-> a[3],
              color |-> color])

CallFillCircle(XYR, C) ==
    \E a \in XYR, color \in C :
        Draw(ssd1306_fillCircle(ssd1306_buffer, a[1], a[2], a[3], color),
             [name |-> "fillCircle", x |-> a[1], y |-> a[2], radius |-> a[3],
              color |-> color])

CallDrawRect(R, C) ==
    \E a \in R, color \in C :
        Draw(ssd1306_drawRect(ssd1306_buffer, a[1], a[2], a[3], a[4], color),
             [name |-> "drawRect", x |-> a[1], y |-> a[2], w |-> a[3],
              h |-> a[4], color |-> color])

CallFillRect(R, C) ==
    \E a \in R, color \in C :
        Draw(ssd1306_fillRect(ssd1306_buffer, a[1], a[2], a[3], a[4], color),
             [name |-> "fillRect", x |-> a[1], y |-> a[2], w |-> a[3],
              h |-> a[4], color |-> color])

CallXorRect(R) ==
    \E a \in R :
        Draw(ssd1306_xorrect(ssd1306_buffer, a[1], a[2], a[3], a[4]),
             [name |-> "xorrect", x |-> a[1], y |-> a[2], w |-> a[3],
              h |-> a[4]])

\* an image is [input, width, height]
CallDrawImage(XY, Imgs, Modes) ==
    \E p \in XY, img \in Imgs, mode \in Modes :
        Draw(ssd1306_drawImage(ssd1306_buffer, p[1], p[2], img.input,
                               img.width, img.height, mode),
             [name |-> "drawImage", x |-> p[1], y |-> p[2],
              input |-> img.input, width |-> img.width,
              height |-> img.height, mode |-> mode])

CallDrawChar(XY, Chrs, C) ==
    \E p \in XY, chr \in Chrs, color \in C :
        Draw(ssd1306_drawchar(ssd1306_buffer, p[1], p[2], chr, color),
             [name |-> "drawchar", x |-> p[1], y |-> p[2], chr |-> chr,
              color |-> color])

CallDrawStr(XY, Strs, C) ==
    \E p \in XY, str \in Strs, color \in C :
        Draw(ssd1306_drawstr(ssd1306_buffer, p[1], p[2], str, color),
             [name |-> "drawstr", x |-> p[1], y |-> p[2], str |-> str,
              color |-> color])

CallDrawCharSz(XY, Chrs, C, Sizes) ==
    \E p \in XY, chr \in Chrs, color \in C, font_size \in Sizes :
        Draw(ssd1306_drawchar_sz(ssd1306_buffer, p[1], p[2], chr, color,
                                 font_size),
             [name |-> "drawchar_sz", x |-> p[1], y |-> p[2], chr |-> chr,
              color |-> color, font_size |-> font_size])

CallDrawStrSz(XY, Strs, C, Sizes) ==
    \E p \in XY, str \in Strs, color \in C, font_size \in Sizes :
        Draw(ssd1306_drawstr_sz(ssd1306_buffer, p[1], p[2], str, color,
                                font_size),
             [name |-> "drawstr_sz", x |-> p[1], y |-> p[2], str |-> str,
              color |-> color, font_size |-> font_size])

(***************************************************************************)
(* The pixel accessor and the buffer fill                                  *)
(***************************************************************************)
DrawPixel == CallDrawPixel(Xs32 \X Ys32, ColorsInt)

XorPixel == CallXorPixel(Xs32 \X Ys32)

NextPixel == SetBuf \/ BinaryPattern \/ DrawPixel \/ XorPixel

SpecPixel == Init /\ [][NextPixel]_vars

(***************************************************************************)
(* Properties of the pixel accessor and of the buffer fill                 *)
(***************************************************************************)
\* the last call named a pixel of the display
OpInDisplay ==
    /\ 0 <= op.x /\ op.x < SSD1306_W
    /\ 0 <= op.y /\ op.y < SSD1306_H

\* bit k of byte i is the pixel the last call named
OpBit(i, k) == i = op.x + SSD1306_W * (op.y \div 8) /\ k = op.y % 8

\* C1: for x < W and y < H, setPixel(x, y, color) leaves bit y&7 of byte
\* x + W*(y/8) at 1 for a nonzero color and at 0 for color 0, togglePixel
\* inverts that bit, and no other bit of the framebuffer changes.
C1_PixelBit ==
    /\ (op.name = "drawPixel" /\ OpInDisplay) =>
          \A i \in 0 .. BufSize - 1 : \A k \in 0 .. 7 :
              Bit(ssd1306_buffer[i], k) =
                  IF OpBit(i, k) THEN (IF op.color # 0 THEN 1 ELSE 0)
                  ELSE Bit(prev[i], k)
    /\ (op.name = "xorPixel" /\ OpInDisplay) =>
          \A i \in 0 .. BufSize - 1 : \A k \in 0 .. 7 :
              Bit(ssd1306_buffer[i], k) =
                  IF OpBit(i, k) THEN 1 - Bit(prev[i], k)
                  ELSE Bit(prev[i], k)

\* a set pixel of a strip byte holding other set and cleared bits is cleared
C1_Witness ==
    /\ op.name = "drawPixel" /\ OpInDisplay /\ op.color = 0
    /\ PixelOf(prev, op.x, op.y) = 1
    /\ PixelOf(ssd1306_buffer, op.x, op.y) = 0
    /\ ssd1306_buffer[PixelAddr(op.x, op.y)] \notin {0, 255}

\* C3: after clearOrFill(color), whatever the buffer held, the buffer has
\* W*H/8 bytes and every bit of it is 1 for a nonzero color, 0 for color 0.
C3_FillAllBits ==
    op.name = "setbuf" =>
        /\ DOMAIN ssd1306_buffer = 0 .. ((SSD1306_W * SSD1306_H) \div 8) - 1
        /\ \A i \in DOMAIN ssd1306_buffer : \A k \in 0 .. 7 :
               Bit(ssd1306_buffer[i], k) = IF op.color # 0 THEN 1 ELSE 0

\* a buffer of mixed bytes is filled with a color that is neither 0 nor 1
C3_Witness ==
    /\ op.name = "setbuf" /\ op.color = 2
    /\ \E i \in DOMAIN prev : prev[i] \notin {0, 255}
    /\ \A i \in DOMAIN ssd1306_buffer : ssd1306_buffer[i] = 255

(***************************************************************************)
(* Every drawing primitive, called inside and outside the display          *)
(***************************************************************************)
\* positions of the uint32_t entry points: in the display, right of it,
\* below it, and 0xFFFFFFFF as column and as row
ClipXY32 ==
    { <<3, 2>>, <<SSD1306_W, 2>>, <<3, SSD1306_H>>, <<0 - 1, 2>>, <<3, 0 - 1>> }
\* positions of the int entry points
ClipXYInt == { <<3, 2>>, <<SSD1306_W, 2>>, <<3, SSD1306_H>>, <<130, 130>> }
\* positions of the uint8_t entry points
ClipXY8 == { <<3, 2>>, <<SSD1306_W, 2>>, <<3, SSD1306_H>>, <<250, 2>>, <<3, 250>> }

\* the position is one of the display
InDisplay(p) ==
    /\ 0 <= p[1] /\ p[1] < SSD1306_W
    /\ 0 <= p[2] /\ p[2] < SSD1306_H

\* an 8x2 image
ClipImages == { [input |-> <<165, 255>>, width |-> 8, height |-> 2] }

ClipPixel == CallDrawPixel(ClipXY32, {1})

ClipXorPixel == CallXorPixel(ClipXY32)

\* a height of -1 only where the start is clipped: from a start in the
\* display the loop while(h--) would not end before h overflows
ClipFastVLine ==
    CallFastVLine({ <<p[1], p[2], h>> : p \in ClipXYInt, h \in {5, 0 - 1} }
                    \ { <<3, 2, 0 - 1>> }, {1})

\* a width of 0xFFFFFFFF only where the start is clipped
ClipFastHLine ==
    CallFastHLine({ <<p[1], p[2], w>> : p \in ClipXY32, w \in {5, 0 - 1} }
                    \ { <<3, 2, 0 - 1>> }, {1})

ClipLine ==
    CallDrawLine({ <<p[1], p[2], q[1], q[2]>> :
                     p \in ClipXYInt, q \in { <<0, 0>> } }, {1})

ClipCircle ==
    CallDrawCircle({ <<p[1], p[2], 6>> : p \in ClipXYInt }, {1})

ClipFillCircle ==
    CallFillCircle({ <<p[1], p[2], 6>> : p \in ClipXYInt }, {1})

ClipRect ==
    CallDrawRect({ <<p[1], p[2], d[1], d[2]>> :
                     p \in ClipXYInt, d \in { <<4, 3>>, <<0 - 3, 3>> } }, {1})

ClipFillRect ==
    CallFillRect({ <<p[1], p[2], 4, 3>> : p \in ClipXY32 }, {1})

ClipXorRect ==
    CallXorRect({ <<p[1], p[2], 10, 8>> : p \in ClipXY8 })

ClipImage == CallDrawImage(ClipXY32, ClipImages, {0})

ClipChar == CallDrawChar(ClipXY8, {72}, {1})

ClipStr == CallDrawStr(ClipXY8, { <<72, 69>> }, {1})

ClipCharSz == CallDrawCharSz(ClipXY8, {72}, {1}, {2})

ClipStrSz == CallDrawStrSz(ClipXY8, { <<72, 69>> }, {1}, {2})

NextClip ==
    \/ SetBuf
    \/ ClipPixel \/ ClipXorPixel \/ ClipFastVLine \/ ClipFastHLine
    \/ ClipLine \/ ClipCircle \/ ClipFillCircle
    \/ ClipRect \/ ClipFillRect \/ ClipXorRect
    \/ ClipImage
    \/ ClipChar \/ ClipStr \/ ClipCharSz \/ ClipStrSz

SpecClip == Init /\ [][NextClip]_vars

\* the last call is a drawing call
IsDraw == op.name \notin {"none", "setbuf", "binary"}

\* the position of the last call lies outside the display: x >= W or y >= H,
\* compared in the type of the entry point's x and y (int for the lines,
\* the circles and the rectangle outline, unsigned for the others)
OpOutside ==
    IF op.name \in {"drawFastVLine", "drawLine", "drawCircle", "fillCircle",
                    "drawRect"}
    THEN op.x >= SSD1306_W \/ op.y >= SSD1306_H
    ELSE GeU32(op.x, SSD1306_W) \/ GeU32(op.y, SSD1306_H)

LineEnds ==
    { <<0, 0>>, <<5, 3>>, <<9, 3>>, <<3, 20>>, <<0 - 2, 0>>, <<5, 0 - 3>>,
      <<130, 4>> }

LineDraw ==
    CallDrawLine({ <<p[1], p[2], q[1], q[2]>> : p \in LineEnds, q \in LineEnds },
                 {0, 1})

NextLine == SetBuf \/ BinaryPattern \/ LineDraw

SpecLine == Init /\ [][NextLine]_vars

\* the pixels of the classic integer midpoint line from (x0, y0) to (x1, y1):
\* along the major axis from the lower end, the minor coordinate has stepped
\* once per time the error deltax/2 - k*deltay has fallen below zero
MidpointLine(x0, y0, x1, y1) ==
    LET steep == gfx_abs(y1 - y0) > gfx_abs(x1 - x0)
        a0 == IF steep THEN y0 ELSE x0
        b0 == IF steep THEN x0 ELSE y0
        a1 == IF steep THEN y1 ELSE x1
        b1 == IF steep THEN x1 ELSE y1
        lo == IF a0 > a1 THEN <<a1, b1>> ELSE <<a0, b0>>
        hi == IF a0 > a1 THEN <<a0, b0>> ELSE <<a1, b1>>
        deltax == hi[1] - lo[1]
        deltay == gfx_abs(hi[2] - lo[2])
        ystep == IF lo[2] < hi[2] THEN 1 ELSE 0 - 1
        Steps(k) == IF deltax = 0 THEN 0
                    ELSE (k * deltay - (deltax \div 2) + deltax - 1) \div deltax
    IN  { IF steep THEN <<lo[2] + ystep * Steps(k), lo[1] + k>>
                   ELSE <<lo[1] + k, lo[2] + ystep * Steps(k)>> :
          k \in 0 .. deltax }

\* the last call has given the pixels Pts that lie in the display the value
\* col and has changed no other pixel
Painted(Pts, col) ==
    /\ \A p \in Pts :
          InDisplay(p) => PixelOf(ssd1306_buffer, p[1], p[2]) = col
    /\ \A i \in DOMAIN ssd1306_buffer :
          ssd1306_buffer[i] # prev[i] =>
             \A k \in 0 .. 7 :
                Bit(ssd1306_buffer[i], k) # Bit(prev[i], k) =>
                   <<i % SSD1306_W, 8 * (i \div SSD1306_W) + k>> \in Pts

\* the end points of the last line are in the range of uint16_t
OpLineNonNegative ==
    op.x >= 0 /\ op.y >= 0 /\ op.x1 >= 0 /\ op.y1 >= 0

\* C4: line(x0, y0, x1, y1, color) modifies exactly the pixels of the classic
\* integer midpoint line clipped to the display, for all integer end points,
\* negative ones included.
C4_LineIsMidpoint ==
    op.name = "drawLine" =>
        Painted(MidpointLine(op.x, op.y, op.x1, op.y1),
                IF op.color # 0 THEN 1 ELSE 0)

\* the same for end points without a negative coordinate
LineIsMidpointNonNegative ==
    (op.name = "drawLine" /\ OpLineNonNegative) =>
        Painted(MidpointLine(op.x, op.y, op.x1, op.y1),
                IF op.color # 0 THEN 1 ELSE 0)

(***************************************************************************)
(* Circles, pass by pass                                                   *)
(***************************************************************************)
\* A circle call is followed through its do-while loop: op holds the
\* arguments, the loop variables x_pos, y_pos and err, and pc, "loop" while
\* the call is in its loop and "done" once it has returned; prev is the
\* buffer the call found.
CircleRunning == op.name \in {"drawCircle", "fillCircle"} /\ op.pc = "loop"

CircleDone == op.name \in {"drawCircle", "fillCircle"} /\ op.pc = "done"

\* the call up to the first pass of its loop
CircleBegin(name, XYR, C) ==
    \E a \in XYR, color \in C :
        LET st == CircleSetup(ssd1306_buffer, a[1], a[2], a[3], color,
                              name = "fillCircle")
        IN  /\ n < MaxOps
            /\ ~CircleRunning
            /\ prev' = ssd1306_buffer
            /\ op' = [name |-> name, x |-> a[1], y |-> a[2], radius |-> a[3],
                      color |-> color, x_pos |-> st.x_pos, y_pos |-> st.y_pos,
                      err |-> st.err, pc |-> "loop"]
            /\ n' = n + 1
            /\ UNCHANGED <<geom, ssd1306_buffer, wire, io>>

\* one pass of the loop; the call returns when the loop is left
CircleLoop ==
    /\ CircleRunning
    /\ LET st == CirclePass([buf |-> ssd1306_buffer, x |-> op.x, y |-> op.y,
                             color |-> op.color,
                             filled |-> (op.name = "fillCircle"),
                             x_pos |-> op.x_pos, y_pos |-> op.y_pos,
                             err |-> op.err, exit |-> FALSE])
       IN  /\ ssd1306_buffer' = st.buf
           /\ op' = [op EXCEPT !.x_pos = st.x_pos, !.y_pos = st.y_pos,
                               !.err = st.err,
                               !.pc = IF st.exit THEN "done" ELSE "loop"]
    /\ UNCHANGED <<geom, prev, n, wire, io>>

\* centers in a corner of the display, inside it, left of it and in the
\* opposite corner
DrawCircleBegin ==
    \/ CircleBegin("drawCircle",
                   { <<p[1], p[2], r>> :
                       p \in { <<1, 1>>, <<20, 16>>, <<0 - 2, 5>> },
                       r \in {0, 1, 3} }
                     \cup { <<20, 16, 6>>, <<20, 16, 20>>,
                            <<SSD1306_W - 1, SSD1306_H - 1, 6>> }, {1})
    \/ CircleBegin("drawCircle", { <<1, 1, 0>> }, {0, 2})

FillCircleBegin ==
    \/ CircleBegin("fillCircle", { <<1, 1, 0>>, <<1, 1, 3>>, <<20, 16, 6>>,
                                   <<SSD1306_W - 2, 16, 6>> }, {1})
    \/ CircleBegin("fillCircle", { <<1, 1, 0>> }, {0})

NextCircle ==
    SetBuf \/ BinaryPattern \/ DrawCircleBegin \/ FillCircleBegin \/ CircleLoop

\* a call that has begun goes on: the loop is the only code running
SpecCircle == Init /\ [][NextCircle]_vars /\ WF_vars(CircleLoop)

\* C5: circle and filledCircle terminate for every radius >= 0 and every
\* center, and with radius 0 the only pixel either one modifies is the
\* center pixel (cx, cy).
C5_CircleTerminates ==
    /\ [](CircleRunning => <>CircleDone)
    /\ []((CircleDone /\ op.radius = 0) =>
             Painted({ <<op.x, op.y>> }, IF op.color # 0 THEN 1 ELSE 0))

\* a circle of radius 0 has returned and has changed its center pixel
C5_Witness ==
    /\ CircleDone /\ op.radius = 0 /\ InDisplay(<<op.x, op.y>>)
    /\ PixelOf(ssd1306_buffer, op.x, op.y) # PixelOf(prev, op.x, op.y)

\* the buffer has no set pixel
Cleared(buf) == \A i \in DOMAIN buf : buf[i] = 0

\* the pixel is outside the display or set
LitOrOutside(x, y) ==
    InDisplay(<<x, y>>) => PixelOf(ssd1306_buffer, x, y) = 1

\* C6: after circle(cx, cy, r, 1) with r > 0 on a cleared buffer, whenever
\* (cx+dx, cy+dy) is lit, each of (cx-dx, cy+dy), (cx+dx, cy-dy) and
\* (cx-dx, cy-dy) that lies inside the display is lit too.
C6_CircleSymmetric ==
    (CircleDone /\ op.name = "drawCircle" /\ op.color = 1 /\ op.radius > 0
       /\ Cleared(prev)) =>
        \A i \in DOMAIN ssd1306_buffer : \A k \in 0 .. 7 :
            Bit(ssd1306_buffer[i], k) = 1 =>
                LET dx == (i % SSD1306_W) - op.x
                    dy == (8 * (i \div SSD1306_W) + k) - op.y
                IN  /\ LitOrOutside(op.x - dx, op.y + dy)
                    /\ LitOrOutside(op.x + dx, op.y - dy)
                    /\ LitOrOutside(op.x - dx, op.y - dy)

\* a circle cut by the display's corner: a lit pixel off both axes whose
\* three reflections are outside the display
C6_Witness ==
    /\ CircleDone /\ op.name = "drawCircle" /\ op.color = 1 /\ op.radius > 0
    /\ Cleared(prev)
    /\ \E dx \in 1 .. op.radius, dy \in 1 .. op.radius :
          /\ InDisplay(<<op.x + dx, op.y + dy>>)
          /\ PixelOf(ssd1306_buffer, op.x + dx, op.y + dy) = 1
          /\ ~InDisplay(<<op.x - dx, op.y + dy>>)
          /\ ~InDisplay(<<op.x + dx, op.y - dy>>)

(***************************************************************************)
(* Images                                                                  *)
(***************************************************************************)
\* an 8x2 image, a 16x1 image of two different byte-groups
SmallImages ==
    { [input |-> <<165, 60>>, width |-> 8, height |-> 2],
      [input |-> <<15, 129>>, width |-> 16, height |-> 1] }

\* the 32x32 image of all-0xFF bytes
Block32 == [input |-> [i \in 1 .. 128 |-> 255], width |-> 32, height |-> 32]

\* positions: the origin, off the byte and page grid, near the far corner
ImagePos == { <<0, 0>>, <<3, 5>>, <<SSD1306_W - 12, SSD1306_H - 1>> }

ImageDraw ==
    \/ CallDrawImage(ImagePos, SmallImages, 0 .. 5)
    \/ CallDrawImage({ <<0, 0>> }, {Block32}, {0})

NextImage == SetBuf \/ BinaryPattern \/ ImageDraw

SpecImage == Init /\ [][NextImage]_vars

\* the destination bit of a mode from the source bit s and the previous
\* destination bit d
ModeBit(mode, s, d) ==
    CASE mode = 0 -> s
      [] mode = 1 -> 1 - s
      [] mode = 2 -> IF s = 0 THEN 0 ELSE d
      [] mode = 3 -> IF s = 1 THEN 1 ELSE d
      [] mode = 4 -> IF s = 0 THEN 1 ELSE d
      [] mode = 5 -> IF s = 1 THEN 0 ELSE d

\* bit k of byte i has changed in the last call
Changed(i, k) == Bit(ssd1306_buffer[i], k) # Bit(prev[i], k)

\* C7: every destination pixel drawImage writes gets, from the source bit s
\* and its previous value d: mode 0 -> s, mode 1 -> not s, mode 2 -> d and s,
\* mode 3 -> d or s, mode 4 -> d or not s, mode 5 -> d and not s; every other
\* bit of the strip bytes is unchanged.
C7_ImageModes ==
    (op.name = "drawImage" /\ op.mode \in 0 .. 5) =>
        LET bytes_to_draw == op.width \div 8
            Col(byte, pixel) == ImageColumn(op.x, bytes_to_draw, byte, pixel)
        IN  /\ \A line \in 0 .. op.height - 1 :
                 \A byte \in 0 .. bytes_to_draw - 1 : \A pixel \in 0 .. 7 :
                    InDisplay(<<Col(byte, pixel), op.y + line>>) =>
                       PixelOf(ssd1306_buffer, Col(byte, pixel), op.y + line) =
                          ModeBit(op.mode,
                                  Bit(op.input[byte + line * bytes_to_draw + 1],
                                      pixel),
                                  PixelOf(prev, Col(byte, pixel), op.y + line))
            /\ \A i \in DOMAIN ssd1306_buffer :
                 ssd1306_buffer[i] # prev[i] =>
                    \A k \in 0 .. 7 :
                       Changed(i, k) =>
                          \E line \in 0 .. op.height - 1 :
                             \E byte \in 0 .. bytes_to_draw - 1 :
                                \E pixel \in 0 .. 7 :
                                   /\ i % SSD1306_W = Col(byte, pixel)
                                   /\ 8 * (i \div SSD1306_W) + k = op.y + line

\* mode 2 over a strip byte of set and cleared bits: a set pixel is cleared
\* under a 0 source bit, another stays set under a 1 source bit
C7_Witness ==
    /\ op.name = "drawImage" /\ op.mode = 2 /\ op.width = 8
    /\ InDisplay(<<op.x + 15, op.y>>)
    /\ \E p \in 0 .. 7, q \in 0 .. 7 :
          /\ Bit(op.input[1], p) = 0
          /\ PixelOf(prev, op.x + 8 + p, op.y) = 1
          /\ PixelOf(ssd1306_buffer, op.x + 8 + p, op.y) = 0
          /\ Bit(op.input[1], q) = 1
          /\ PixelOf(prev, op.x + 8 + q, op.y) = 1
          /\ PixelOf(ssd1306_buffer, op.x + 8 + q, op.y) = 1

\* C8: drawImage(x, y, bitmap, width, height, mode) modifies only pixels in
\* columns x..x+width-1 and rows y..y+height-1; an all-0xFF 32x32 bitmap
\* drawn at (0,0) in mode 0 on a cleared 128x64 buffer lights exactly columns
\* 0..31 of rows 0..31.
C8_ImageStartsAtX ==
    op.name = "drawImage" =>
        /\ \A i \in DOMAIN ssd1306_buffer :
             ssd1306_buffer[i] # prev[i] =>
                \A k \in 0 .. 7 :
                   Changed(i, k) =>
                      /\ (i % SSD1306_W) \in op.x .. op.x + op.width - 1
                      /\ (8 * (i \div SSD1306_W) + k) \in
                            op.y .. op.y + op.height - 1
        /\ (op.input = Block32.input /\ op.width = 32 /\ op.x = 0 /\ op.y = 0
              /\ op.mode = 0 /\ SSD1306_W = 128 /\ SSD1306_H = 64
              /\ Cleared(prev)) =>
             \A x \in 0 .. SSD1306_W - 1 : \A y \in 0 .. SSD1306_H - 1 :
                PixelOf(ssd1306_buffer, x, y) =
                   IF x <= 31 /\ y <= 31 THEN 1 ELSE 0

\* C9: drawImage in mode 0 is idempotent: the same call on the buffer it has
\* left gives that buffer again.
C9_Mode0Idempotent ==
    (op.name = "drawImage" /\ op.mode = 0) =>
        ssd1306_drawImage(ssd1306_buffer, op.x, op.y, op.input, op.width,
                          op.height, op.mode) = ssd1306_buffer

\* a mode 0 call that has set some pixels and cleared others
C9_Witness ==
    /\ op.name = "drawImage" /\ op.mode = 0
    /\ \E i \in DOMAIN ssd1306_buffer : \E k \in 0 .. 7 :
          Bit(prev[i], k) = 0 /\ Bit(ssd1306_buffer[i], k) = 1
    /\ \E i \in DOMAIN ssd1306_buffer : \E k \in 0 .. 7 :
          Bit(prev[i], k) = 1 /\ Bit(ssd1306_buffer[i], k) = 0

(***************************************************************************)
(* Glyphs                                                                  *)
(***************************************************************************)
\* positions on and off the byte and page grid and near the far corner
CharPos == { <<0, 0>>, <<3, 5>>, <<SSD1306_W - 4, SSD1306_H - 4>> }

\* 'H', the block and the blank
CharDraw == CallDrawChar(CharPos, {72, 127, 32}, Colors8)

CharSzDraw ==
    \/ CallDrawCharSz(CharPos, {72}, Colors8, {1, 2})
    \/ CallDrawCharSz({ <<3, 5>> }, {72}, {1}, {4})

NextText == SetBuf \/ BinaryPattern \/ CharDraw \/ CharSzDraw

SpecText == Init /\ [][NextText]_vars

\* the scale of the last glyph call
OpScale == IF op.name = "drawchar_sz" THEN op.font_size ELSE 1

\* bit col of row `row` of the glyph, MSB first
GlyphBit(chr, row, col) == Bit(fontdata(chr * 8 + row), 7 - col)

\* C10: drawChar and drawCharScaled paint opaque glyphs for every color
\* value: each glyph bit that is 1 paints its scale x scale block at
\* (x + col*scale + k, y + row*scale + l) set for a nonzero color and cleared
\* for color 0, and each glyph bit that is 0 paints it the inverse.
C10_GlyphOpaque ==
    op.name \in {"drawchar", "drawchar_sz"} =>
        \A row \in 0 .. 7 : \A col \in 0 .. 7 :
            \A k \in 0 .. OpScale - 1 : \A l \in 0 .. OpScale - 1 :
                LET px == op.x + col * OpScale + k
                    py == op.y + row * OpScale + l
                    ink == IF op.color # 0 THEN 1 ELSE 0
                IN  InDisplay(<<px, py>>) =>
                       PixelOf(ssd1306_buffer, px, py) =
                          IF GlyphBit(op.chr, row, col) = 1 THEN ink
                          ELSE 1 - ink

\* the same for the color values 0 and 1 and the other odd values
GlyphOpaqueOddOrZero ==
    (op.name \in {"drawchar", "drawchar_sz"} /\ (op.color = 0 \/ op.color % 2 = 1))
        => C10_GlyphOpaque

(***************************************************************************)
(* Strings                                                                 *)
(***************************************************************************)
\* "HELLO"
Hello == <<72, 69, 76, 76, 79>>

\* start columns: the left edge, a column two glyphs before the edge of the
\* display, columns less than a glyph before it, a column beyond every
\* display that the uint8_t cursor carries past 255
StrPos ==
    { <<0, 0>>, <<SSD1306_W - 16, 0>>, <<SSD1306_W - 8, 0>>,
      <<SSD1306_W - 4, 8>>, <<250, 0>> }

StrDraw == CallDrawStr(StrPos, {Hello}, {1})

StrSzDraw == CallDrawStrSz(StrPos, {Hello}, {1}, {1, 2})

NextStr == SetBuf \/ StrDraw \/ StrSzDraw

SpecStr == Init /\ [][NextStr]_vars

\* the scale of the last string call
OpStrScale == IF op.name = "drawstr_sz" THEN op.font_size ELSE 1

\* character i of the last string call has its whole cell inside the display
CellFits(i) ==
    /\ i < Len(op.str)
    /\ op.x + 8 * OpStrScale * (i + 1) <= SSD1306_W

\* C11: drawString and drawStringScaled draw the i-th character only at
\* column x + 8*scale*i and only if x + 8*scale*(i+1) <= W, and draw no
\* character at a lower column: every pixel a string call changes lies in
\* the cell of a character that fits.
C11_StringClipped ==
    op.name \in {"drawstr", "drawstr_sz"} =>
        \A b \in DOMAIN ssd1306_buffer :
            ssd1306_buffer[b] # prev[b] =>
                \E i \in 0 .. Len(op.str) - 1 :
                    /\ CellFits(i)
                    /\ (b % SSD1306_W) \in
                          (op.x + 8 * OpStrScale * i) ..
                             (op.x + 8 * OpStrScale * (i + 1) - 1)

\* the same for start columns whose first cell fits
StringClippedFromFittingStart ==
    (op.name \in {"drawstr", "drawstr_sz"} /\ CellFits(0)) => C11_StringClipped

(***************************************************************************)
(* Transport: ssd1306_cmd, ssd1306_data, ssd1306_refresh, ssd1306_init     *)
(***************************************************************************)
SSD1306_PSZ == 32
SSD1306_COLUMNADDR == 33
SSD1306_PAGEADDR == 34
SSD1306_TERMINATE_CMDS == 255

\* what i2c_write_raw returns: 0 for a transfer that succeeded, an error
\* code otherwise
I2cStatus == {0, 2}

\* what a read past the end of ssd1306_buffer finds there
Beyond == {0, 255}

\* the initialization commands of the build, the terminator included
ssd1306_init_array ==
    IF SSD1306_H = 128
    THEN <<174, 0, 16, 176, 220, 0, 129, 111, SSD1306_COLUMNADDR, 164,
           168, SSD1306_H - 1, 211, 0, 213, 240, 217, 29, 219, 53, 64,
           173, 128, 160, 1, 217, 6, 129, 254, 219, 254,
           168, SSD1306_H - 1, 175, SSD1306_TERMINATE_CMDS>>
    ELSE <<174, 213, 128, 168,
           IF SSD1306_W = 64 THEN 31 ELSE IF SSD1306_W = 72 THEN 39 ELSE 63,
           211, 0, 64, 141, 20, 32, 0, 161, 200, 218,
           IF SSD1306_W = 128 /\ SSD1306_H = 32 THEN 34 ELSE 18,
           129,
           IF SSD1306_W = 72 THEN 175 ELSE 143,
           217, 241, 219, 64, 164, 166, 175, SSD1306_TERMINATE_CMDS>>

\* the transfer of ssd1306_cmd: the control byte 0x00, then the command
ssd1306_cmd(cmd) == <<0, U8(cmd)>>

\* the byte at buf + a
ReadByte(buf, a, beyond) == IF a \in DOMAIN buf THEN buf[a] ELSE beyond

\* the transfer of ssd1306_data(dev, &buf[i], sz): the control byte 0x40,
\* then sz bytes, at most SSD1306_PSZ, copied from buf + i
ssd1306_data(buf, i, sz, beyond) ==
    LET len == IF sz > SSD1306_PSZ THEN SSD1306_PSZ ELSE sz
    IN  <<64>> \o [j \in 1 .. len |-> ReadByte(buf, i + j - 1, beyond)]

\* a refresh that sends the four window bytes without their two opcodes
MutRefreshCommandsNoOpcodes(offset, w) ==
    <<offset, offset + w - 1, 0, 7>>

\* the commands ssd1306_refresh sends, in order
RefreshCommands(offset, w) ==
    <<SSD1306_COLUMNADDR, offset, offset + w - 1, SSD1306_PAGEADDR, 0, 7>>

\* io is the call that transmits and its position: pc is "idle" before it,
\* "init" in the command loop of ssd1306_init, "cmd" and "data" in the two
\* parts of ssd1306_refresh, "done" once the call has returned; k is the
\* next command, i the loop variable of the data loop, base the number of
\* transfers made before the refresh, n0 the number of drawing calls made
\* before it, ret the value ssd1306_init returned, and failed tells whether
\* a transfer issued under ssd1306_init returned an error.
RefreshBegin ==
    /\ io.pc = "idle"
    /\ io' = [io EXCEPT !.pc = "cmd", !.caller = "refresh", !.k = 1,
                        !.base = Len(wire), !.n0 = n]
    /\ UNCHANGED <<geom, ssd1306_buffer, prev, op, n, wire>>

\* ssd1306_init up to its command loop
InitBegin ==
    /\ io.pc = "idle"
    /\ prev' = ssd1306_buffer
    /\ ssd1306_buffer' = ssd1306_setbuf(0)
    /\ op' = [name |-> "init"]
    /\ io' = [io EXCEPT !.pc = "init", !.caller = "init", !.k = 1]
    /\ UNCHANGED <<geom, n, wire>>

\* one pass of the command loop: return 1 if the command was not sent
InitCmd ==
    /\ io.pc = "init"
    /\ ssd1306_init_array[io.k] # SSD1306_TERMINATE_CMDS
    /\ \E status \in I2cStatus :
        /\ wire' = Append(wire, ssd1306_cmd(ssd1306_init_array[io.k]))
        /\ io' = IF U8(status) # 0
                 THEN [io EXCEPT !.pc = "done", !.k = @ + 1, !.ret = 1,
                                 !.failed = TRUE]
                 ELSE [io EXCEPT !.k = @ + 1]
    /\ UNCHANGED <<geom, ssd1306_buffer, prev, op, n>>

\* the command loop is left at the terminator and ssd1306_refresh is called
InitRefresh ==
    /\ io.pc = "init"
    /\ ssd1306_init_array[io.k] = SSD1306_TERMINATE_CMDS
    /\ io' = [io EXCEPT !.pc = "cmd", !.k = 1, !.base = Len(wire), !.n0 = n]
    /\ UNCHANGED <<geom, ssd1306_buffer, prev, op, n, wire>>

\* one ssd1306_cmd of ssd1306_refresh; what it returns is dropped
RefreshCmd ==
    /\ io.pc = "cmd"
    /\ \E status \in I2cStatus :
        LET cmds == RefreshCommands(SSD1306_OFFSET, SSD1306_W)
        IN  /\ wire' = Append(wire, ssd1306_cmd(cmds[io.k]))
            /\ io' = [io EXCEPT
                        !.pc = IF io.k = Len(cmds) THEN "data" ELSE "cmd",
                        !.k = @ + 1,
                        !.i = 0,
                        !.failed = @ \/ (io.caller = "init" /\ U8(status) # 0)]
    /\ UNCHANGED <<geom, ssd1306_buffer, prev, op, n>>

\* one pass of the data loop; what ssd1306_data returns is dropped
RefreshData ==
    /\ io.pc = "data"
    /\ io.i < BufSize
    /\ \E status \in I2cStatus, beyond \in Beyond :
        /\ wire' = Append(wire, ssd1306_data(ssd1306_buffer, io.i,
                                             SSD1306_PSZ, beyond))
        /\ io' = [io EXCEPT
                    !.i = @ + SSD1306_PSZ,
                    !.failed = @ \/ (io.caller = "init" /\ U8(status) # 0)]
    /\ UNCHANGED <<geom, ssd1306_buffer, prev, op, n>>

\* the data loop is left; ssd1306_refresh returns, and ssd1306_init, if it
\* is the caller, returns 0
RefreshReturn ==
    /\ io.pc = "data"
    /\ io.i >= BufSize
    /\ io' = [io EXCEPT !.pc = "done", !.ret = 0]
    /\ UNCHANGED <<geom, ssd1306_buffer, prev, op, n, wire>>

\* a frame as main makes it: the buffer is filled and drawn into, then sent
FrameFill == io.pc = "idle" /\ (SetBuf \/ BinaryPattern)

FrameDraw ==
    /\ io.pc = "idle"
    /\ CallDrawPixel({<<0, 0>>, <<SSD1306_W - 1, SSD1306_H - 1>>}, {0, 1})

NextRefresh ==
    \/ FrameFill
    \/ FrameDraw
    \/ RefreshBegin
    \/ InitBegin
    \/ InitCmd
    \/ InitRefresh
    \/ RefreshCmd
    \/ RefreshData
    \/ RefreshReturn

SpecRefresh == Init /\ [][NextRefresh]_vars

\* the transfers of the refresh in progress or last made
RefreshWire == SubSeq(wire, io.base + 1, Len(wire))

IsCmd(pkt) == pkt[1] = 0
IsData(pkt) == pkt[1] = 64

Commands == SelectSeq(RefreshWire, IsCmd)
DataPackets == SelectSeq(RefreshWire, IsData)

\* ssd1306_refresh has returned (ret is 1 when ssd1306_init returned
\* before calling it)
Refreshed == io.pc = "done" /\ io.ret = 0

\* ssd1306_refresh is sending its data or has returned
CommandsSent == io.pc = "data" \/ Refreshed

\* the commands come first
CommandsBeforeData ==
    \A j, k \in DOMAIN RefreshWire :
        (j < k /\ IsData(RefreshWire[j])) => ~IsCmd(RefreshWire[k])

\* C12 (as stated): every refresh issues exactly 4 commands through
\* ssd1306_cmd, all before its first data packet, none after a data packet.
C12_FourCommandsFirst ==
    /\ CommandsBeforeData
    /\ CommandsSent => Len(Commands) = 4

\* C12 (amended): every refresh issues exactly 6 commands through
\* ssd1306_cmd, the two opcodes and their four window bytes, all before its
\* first data packet, none after a data packet.
C12_SixCommandsFirst ==
    /\ CommandsBeforeData
    /\ CommandsSent => Len(Commands) = 6

C12_Witness ==
    /\ Refreshed
    /\ Len(Commands) = 6
    /\ Len(DataPackets) > 0
    /\ IsData(RefreshWire[Len(RefreshWire)])

\* the bytes the data packets carry, one after the other
RECURSIVE Payload(_)
Payload(pkts) ==
    IF pkts = << >> THEN << >> ELSE Tail(Head(pkts)) \o Payload(Tail(pkts))

\* the buffer as the sequence of its bytes
BufferBytes(buf) == [j \in 1 .. BufSize |-> buf[j - 1]]

\* ceil(sizeof(ssd1306_buffer) / SSD1306_PSZ)
PacketsNeeded == (BufSize + SSD1306_PSZ - 1) \div SSD1306_PSZ

\* C13: refresh sends exactly ceil((W*H/8)/maxPacket) data packets, each the
\* marker 0x40 followed by at most maxPacket buffer bytes; the final packet
\* carries only the remaining bytes, no byte past the end of the buffer is
\* read, and the payloads, concatenated, are the buffer in byte order.
C13_PacketsCoverBuffer ==
    Refreshed =>
        /\ Len(DataPackets) = PacketsNeeded
        /\ \A j \in DOMAIN DataPackets :
              /\ DataPackets[j][1] = 64
              /\ Len(DataPackets[j]) - 1 <= SSD1306_PSZ
        /\ Len(DataPackets[PacketsNeeded]) - 1 =
              BufSize - SSD1306_PSZ * (PacketsNeeded - 1)
        /\ Payload(DataPackets) = BufferBytes(ssd1306_buffer)

\* the same for the builds whose buffer is a whole number of packets
PacketsCoverWholeBuffer ==
    BufSize % SSD1306_PSZ = 0 => C13_PacketsCoverBuffer

\* the first sizeof(ssd1306_buffer) bytes sent are the buffer, in every build
PayloadBeginsWithBuffer ==
    Refreshed =>
        SubSeq(Payload(DataPackets), 1, BufSize) = BufferBytes(ssd1306_buffer)

\* C14: init returns 0 if and only if every transfer it issued succeeded: a
\* nonzero status from a command or data send, the sends of its final
\* refresh included, makes it return nonzero.
C14_InitStatus ==
    (io.caller = "init" /\ io.pc = "done") => (io.ret = 0 <=> ~io.failed)

\* what init does report: it returns 1 only after a failed transfer, and 0
\* only after the whole initialization sequence and a whole refresh
InitStatusOfCommands ==
    (io.caller = "init" /\ io.pc = "done") =>
        /\ io.ret = 1 => io.failed
        /\ io.ret = 0 =>
              /\ io.base = Len(ssd1306_init_array) - 1
              /\ Len(DataPackets) = PacketsNeeded

\* C16: the window refresh sets is column start = offset, column end =
\* offset + W - 1, page start = 0, page end = H/8 - 1, for every display.
C16_Window ==
    CommandsSent =>
        /\ Commands[1][2] = SSD1306_COLUMNADDR
        /\ Commands[2][2] = SSD1306_OFFSET
        /\ Commands[3][2] = SSD1306_OFFSET + SSD1306_W - 1
        /\ Commands[4][2] = SSD1306_PAGEADDR
        /\ Commands[5][2] = 0
        /\ Commands[6][2] = (SSD1306_H \div 8) - 1

\* the same for the 64 rows of the 128x64 display
WindowOf64Rows == SSD1306_H = 64 => C16_Window

(***************************************************************************)
(* Zero-size shapes                                                        *)
(***************************************************************************)
\* start coordinates: the origin, the left column, the top row, inside
ZeroStarts == { <<0, 0>>, <<0, 5>>, <<5, 0>>, <<5, 5>> }

\* rectangles of no width, of no height, of neither
ZeroRects ==
    { <<p[1], p[2], d[1], d[2]>> :
        p \in ZeroStarts, d \in { <<0, 3>>, <<3, 0>>, <<0, 0>> } }

ZeroVLine == CallFastVLine({ <<p[1], p[2], 0>> : p \in ZeroStarts }, {0, 1})

ZeroHLine == CallFastHLine({ <<p[1], p[2], 0>> : p \in ZeroStarts }, {0, 1})

ZeroDrawRect == CallDrawRect(ZeroRects, {0, 1})

ZeroFillRect == CallFillRect(ZeroRects, {0, 1})

ZeroXorRect == CallXorRect(ZeroRects)

NextZero ==
    \/ SetBuf
    \/ BinaryPattern
    \/ ZeroVLine
    \/ ZeroHLine
    \/ ZeroDrawRect
    \/ ZeroFillRect
    \/ ZeroXorRect

SpecZero == Init /\ [][NextZero]_vars

\* the last call is one of a shape of no width or of no height
OpZeroSize ==
    \/ op.name = "drawFastVLine" /\ op.h = 0
    \/ op.name = "drawFastHLine" /\ op.w = 0
    \/ op.name \in {"drawRect", "fillRect", "xorrect"} /\ (op.w = 0 \/ op.h = 0)

\* C15: fastHLine with w = 0, fastVLine with h = 0, and rect, fillRect and
\* xorRect with zero width or height leave the buffer unchanged, for every
\* start coordinate.
C15_ZeroSizeNoOp == OpZeroSize => ssd1306_buffer = prev

\* the same for the shapes drawn by counting loops alone
ZeroSizeNoOpCounted ==
    (OpZeroSize /\ op.name \in {"drawFastVLine", "fillRect", "xorrect"}) =>
        ssd1306_buffer = prev

\* the same for fastHLine away from the left column
ZeroSizeNoOpHLineInside ==
    (OpZeroSize /\ op.name = "drawFastHLine" /\ op.x > 0) =>
        ssd1306_buffer = prev

(***************************************************************************)
(* Rows of the filled circle                                               *)
(***************************************************************************)
\* the steps <<x_pos, y_pos>> the loop visits from a step on
RECURSIVE CircleVisits(_, _, _)
CircleVisits(x_pos, y_pos, err) ==
    LET nxt == CircleStep(x_pos, y_pos, err)
    IN  { <<x_pos, y_pos>> } \cup
          (IF nxt[1] <= 0 THEN CircleVisits(nxt[1], nxt[2], nxt[3]) ELSE {})

\* the pixels of the rows y + y_pos and y - y_pos between the columns
\* x + x_pos and x - x_pos, over the steps of a circle
CircleRows(x, y, radius) ==
    UNION { { <<c, r>> : c \in (x + v[1]) .. (x - v[1]),
                         r \in { y + v[2], y - v[2] } } :
            v \in CircleVisits(0 - radius, 0, 2 - 2 * radius) }

\* C17: filledCircle fills every row it visits: for each step (x_pos, y_pos)
\* every in-display pixel of the rows cy + y_pos and cy - y_pos in the
\* columns cx + x_pos .. cx - x_pos has the color, for every center and
\* radius, circles that reach past the left or right edge included.
C17_FillCircleRows ==
    (CircleDone /\ op.name = "fillCircle") =>
        \A p \in CircleRows(op.x, op.y, op.radius) :
            InDisplay(p) =>
                PixelOf(ssd1306_buffer, p[1], p[2]) =
                    (IF op.color # 0 THEN 1 ELSE 0)

\* the same for the circles that do not reach past the left edge
FillCircleRowsRightOfEdge ==
    (CircleDone /\ op.name = "fillCircle" /\ op.x - op.radius >= 0) =>
        C17_FillCircleRows

(***************************************************************************)
(* A drawing context beside the refresh                                    *)
(***************************************************************************)
\* the buffer is filled before the refresh begins
TearFill == io.pc = "idle" /\ SetBuf

\* a drawing call from another context runs whole before the refresh,
\* between two of its transfers, or not at all: one byte toggled, or a row
\* that spans several packets
TearDraw ==
    /\ io.pc \in {"idle", "cmd", "data"}
    /\ \/ CallXorPixel({ <<0, 0>> })
       \/ CallFastHLine({ <<0, 0, SSD1306_W>> }, {0, 1})

NextTear ==
    \/ TearFill
    \/ TearDraw
    \/ RefreshBegin
    \/ RefreshCmd
    \/ RefreshData
    \/ RefreshReturn

SpecTear == Init /\ [][NextTear]_vars

\* no drawing call ran since the refresh began
Undisturbed == n = io.n0

\* the bytes sent for the frame: the first sizeof(ssd1306_buffer) ones
FramePayload == SubSeq(Payload(DataPackets), 1, BufSize)

\* C18: a refresh during which no drawing call runs transmits the buffer:
\* the payload of its data packets equals the framebuffer.  (A drawing call
\* between two data packets can make it equal neither the buffer before the
\* call nor the buffer after it: TornFrame.)
C18_UndisturbedIsBuffer ==
    (Refreshed /\ Undisturbed) =>
        Payload(DataPackets) = BufferBytes(ssd1306_buffer)

\* the frame sent is neither the buffer before the drawing call nor after
TornFrame ==
    /\ Refreshed
    /\ ~Undisturbed
    /\ FramePayload # BufferBytes(prev)
    /\ FramePayload # BufferBytes(ssd1306_buffer)

\* an undisturbed refresh begins with the buffer in every build
UndisturbedBeginsWithBuffer ==
    (Refreshed /\ Undisturbed) => FramePayload = BufferBytes(ssd1306_buffer)

\* a disturbed refresh sends each byte as it was before or after the call
DisturbedMixesBeforeAndAfter ==
    (Refreshed /\ ~Undisturbed) =>
        \A j \in 1 .. BufSize :
            FramePayload[j] \in {prev[j - 1], ssd1306_buffer[j - 1]}

(***************************************************************************)
(* Buffer indices                                                          *)
(***************************************************************************)
\* an accessor that computes addr whatever x and y are
MutPixelAccessUnclipped(x, y) == { PixelAddr(x, y) }

\* the indices addr at which ssd1306_drawPixel and ssd1306_xorPixel read and
\* write ssd1306_buffer: none when the clip test returns
PixelAccess(x, y) ==
    IF GeU32(x, SSD1306_W) \/ GeU32(y, SSD1306_H) THEN {}
    ELSE { PixelAddr(x, y) }

\* the indices buffer_addr at which ssd1306_drawImage reads and writes
\* ssd1306_buffer: a line is reached if no line before it left the line
\* loop, a pixel if no pixel before it left the pixel loop of its byte
ImageAccess(x, y, width, height) ==
    LET bytes_to_draw == width \div 8
        lines == { line \in 0 .. height - 1 :
                     \A l \in 0 .. line : ~GeU32(y + l, SSD1306_H) }
        cells == { c \in lines \X (0 .. bytes_to_draw - 1) \X (0 .. 7) :
                     \A q \in 0 .. c[3] :
                        ~GeU32(ImageColumn(x, bytes_to_draw, c[2], q),
                               SSD1306_W) }
    IN  { ImageColumn(x, bytes_to_draw, c[2], c[3])
            + SSD1306_W * ((y + c[1]) \div 8) : c \in cells }

\* coordinates as the accessors receive them: inside, on the edges, just
\* outside, the values the 8-bit counters of the callers reach (255), and
\* negative ints, which arrive as uint32_t values of 2^32 - 1 and below
AccessXs == { 0, 1, SSD1306_W - 1, SSD1306_W, 255, 65536, 0 - 1, 0 - 8 }
AccessYs == { 0, 7, SSD1306_H - 1, SSD1306_H, 255, 0 - 1 }

AccessPixel == CallDrawPixel(AccessXs \X AccessYs, {1})

AccessXor == CallXorPixel(AccessXs \X AccessYs)

\* a 16x2 image at positions that make x + 8*(bytes_to_draw - byte) + pixel
\* and y + line wrap around 2^32 or leave the display
AccessImage ==
    CallDrawImage({ 0, SSD1306_W - 12, 0 - 8, 0 - 12, 0 - 20 }
                     \X { 0, SSD1306_H - 1, 0 - 1 },
                  { [input |-> <<165, 255, 90, 129>>, width |-> 16,
                     height |-> 2] },
                  {3})

NextAccess == AccessPixel \/ AccessXor \/ AccessImage

SpecAccess == Init /\ [][NextAccess]_vars

\* the indices the last call read or wrote
OpAccess ==
    IF op.name \in {"drawPixel", "xorPixel"} THEN PixelAccess(op.x, op.y)
    ELSE IF op.name = "drawImage"
         THEN ImageAccess(op.x, op.y, op.width, op.height)
    ELSE {}

\* the bytes the last call changed
ChangedBytes == { b \in DOMAIN ssd1306_buffer : ssd1306_buffer[b] # prev[b] }

\* C19: every index at which setPixel, togglePixel or drawImage reads or
\* writes the framebuffer is in [0, W*H/8), for all argument values, the
\* ones that wrap in 8 or 32 bits included; the bytes a call changes are
\* among these indices (all of them for togglePixel).
C19_AccessInBuffer ==
    /\ OpAccess \subseteq 0 .. BufSize - 1
    /\ ChangedBytes \subseteq OpAccess
    /\ op.name = "xorPixel" => ChangedBytes = OpAccess

\* drawImage at a column whose sum wraps around 2^32 into the display
C19_Witness ==
    /\ op.name = "drawImage"
    /\ op.x < 0
    /\ ChangedBytes # {}
    /\ ChangedBytes = OpAccess

====
